---- MODULE Spec2Model ----
(***************************************************************************)
(* Model of the turn controller (App.tsx), the story service wrapper       *)
(* (services/geminiService) and the data types (types) of the mystery      *)
(* game.  React state cells are variables; every async handler is split at *)
(* its await into the part that runs up to the await and its continuation. *)
(*                                                                         *)
(* Scheduling assumptions (React, not in this repository): the mount       *)
(* effect runs before the first user event is dispatched, and the render   *)
(* caused by a handler's state updates is committed before the next user   *)
(* event, so handleAction reads the current isLoading.                     *)
(***************************************************************************)
EXTENDS Integers, Sequences, FiniteSets, TLC

\* ---------------------------------------------------------------- bounds
MaxTurns == 1      \* accepted handleAction calls in one run
MaxTime == 1       \* Date.now() ranges over 0..MaxTime

\* ------------------------------------------------------- optional values
\* A JavaScript value that may be undefined: <<>> is undefined, <<v>> is v.
None == <<>>
Some(v) == <<v>>

\* Variant: a string field counts as set whenever it is present.
TruthyStr_presentOnly(o) == o # None

\* Truthiness of an optional string / boolean / object, as `if (x)` tests it.
TruthyStr(o) == o # None /\ o[1] # ""
TruthyBool(o) == o # None /\ o[1] = TRUE
TruthyObj(o) == o # None

\* The text shown for a narrative that may be undefined.
Undefined == "undefined"
TextOf(o) == IF o = None THEN Undefined ELSE o[1]

\* ------------------------------------------------------------------ types
LocationId ==
  {"station", "town_square", "old_library", "observatory", "forest", "mayas_house"}

GamePhase == {"start", "playing", "puzzle", "memory", "ending"}

\* -------------------------------------------------------- service replies
\* Values the story service may put in the arguments of a function call.
ReplyLocations == {None, Some(""), Some("forest"), Some("atlantis")}
ReplyItems == {None, Some(""), Some("Key"), Some("Map")}
ReplyClues == {None, Some([name |-> "Strange Note", description |-> "..."])}
ReplyMemory == {None, Some(FALSE), Some(TRUE)}
ReplyNarratives == {None, Some("You find a rusty key.")}

Plain ==
  [narrative |-> Some("You find a rusty key."), newLocation |-> None,
   itemAdded |-> None, itemRemoved |-> None, clueAdded |-> None,
   memoryTriggered |-> None]

\* The arguments of a function call: a narrative alone; every pair of
\* itemAdded / itemRemoved; each other field alone, with each of its values;
\* no narrative; every field at once.
Args ==
  {[Plain EXCEPT !.itemAdded = a, !.itemRemoved = r] : a \in ReplyItems, r \in ReplyItems}
  \cup {[Plain EXCEPT !.newLocation = l] : l \in ReplyLocations}
  \cup {[Plain EXCEPT !.clueAdded = c] : c \in ReplyClues}
  \cup {[Plain EXCEPT !.memoryTriggered = m] : m \in ReplyMemory}
  \cup {[Plain EXCEPT !.narrative = n] : n \in ReplyNarratives}
  \cup {[narrative |-> Some("You find a rusty key."), newLocation |-> Some("forest"),
         itemAdded |-> Some("Key"), itemRemoved |-> Some("Map"),
         clueAdded |-> c, memoryTriggered |-> Some(TRUE)] : c \in ReplyClues \ {None}}

FunctionCallPart(name, args) ==
  [functionCall |-> Some([name |-> name, args |-> args]), text |-> None]
TextPart(t) == [functionCall |-> None, text |-> Some(t)]

\* A result of chatSession.sendMessage: candidates[0].content.parts, or no
\* candidates at all.
Results ==
  {[parts |-> Some(<<FunctionCallPart("updateGameState", Some(a))>>)] : a \in Args}
  \cup {[parts |-> Some(<<FunctionCallPart("otherTool", Some(Plain))>>)],
        [parts |-> Some(<<TextPart("A voice answers."),
                          FunctionCallPart("updateGameState", Some(Plain))>>)],
        [parts |-> Some(<<FunctionCallPart("updateGameState", None)>>)],
        [parts |-> Some(<<TextPart("A voice answers.")>>)],
        [parts |-> Some(<<TextPart("")>>)],
        [parts |-> Some(<<>>)],
        [parts |-> None]}

\* What awaiting chatSession.sendMessage yields: it throws, or a result.
Throws == [threw |-> TRUE]
Returns(v) == [threw |-> FALSE, value |-> v]
Outcomes == {Throws} \cup {Returns(r) : r \in Results}

\* ------------------------------------------------------- geminiService
ErrorResult(msg) == [narrative |-> Some(msg), updates |-> None, error |-> TRUE]

NoUpdates ==
  [newLocation |-> None, itemAdded |-> None, itemRemoved |-> None,
   clueAdded |-> None, memoryTriggered |-> None]

HasFunctionCall(p) == TruthyObj(p.functionCall)
HasText(p) == TruthyStr(p.text)

\* parts.find(p => p.functionCall): the first such part, or undefined.
FindFunctionCall(parts) ==
  LET hits == {i \in 1..Len(parts) : HasFunctionCall(parts[i])}
  IN IF hits = {} THEN None
     ELSE Some(parts[CHOOSE i \in hits : \A j \in hits : i <= j])

\* parts.find(p => p.text): the first such part, or undefined.
FindText(parts) ==
  LET hits == {i \in 1..Len(parts) : HasText(parts[i])}
  IN IF hits = {} THEN None
     ELSE Some(parts[CHOOSE i \in hits : \A j \in hits : i <= j])

processResponse(result) ==
  LET parts == IF result.parts = None THEN <<>> ELSE result.parts[1]
      part == FindFunctionCall(parts)
      textPart == FindText(parts)
  IN IF part # None
     THEN LET fc == part[1].functionCall[1]
          IN IF fc.args = None
             THEN Throws      \* args.narrative on undefined: TypeError
             ELSE LET args == fc.args[1]
                  IN Returns([narrative |-> args.narrative,
                              updates |-> Some([newLocation |-> args.newLocation,
                                                itemAdded |-> args.itemAdded,
                                                itemRemoved |-> args.itemRemoved,
                                                clueAdded |-> args.clueAdded,
                                                memoryTriggered |-> args.memoryTriggered]),
                              error |-> FALSE])
     ELSE IF textPart # None
     THEN Returns([narrative |-> textPart[1].text, updates |-> Some(NoUpdates),
                   error |-> FALSE])
     ELSE Returns([narrative |-> Some("..."), updates |-> Some(NoUpdates),
                   error |-> FALSE])

\* initializeGame after chats.create: `created` says whether create returned;
\* `outcome` is what awaiting sendMessage yields.  Everything thrown inside the
\* try block becomes the error result.
initializeGame(created, outcome) ==
  IF ~created \/ outcome.threw
  THEN ErrorResult("Connection to the void failed. (Check API Key)")
  ELSE LET r == processResponse(outcome.value)
       IN IF r.threw
          THEN ErrorResult("Connection to the void failed. (Check API Key)")
          ELSE r.value

\* sendPlayerAction: `session` is chatSession at the call, `outcome` is what
\* awaiting sendMessage yields.
sendPlayerAction(session, outcome) ==
  IF session = "null"
  THEN ErrorResult("Game session lost. Please restart.")
  ELSE IF outcome.threw
  THEN ErrorResult("The whispers are too loud... (API Error)")
  ELSE LET r == processResponse(outcome.value)
       IN IF r.threw
          THEN ErrorResult("The whispers are too loud... (API Error)")
          ELSE r.value

\* ------------------------------------------------------------------ state
VARIABLES
  gameState,          \* useState<GameState>
  input,              \* useState('') : the text box
  isLoading,          \* useState(false)
  showMemoryOverlay,  \* useState(false)
  timers,             \* pending setTimeout callbacks that clear the overlay
  chatSession,        \* module-level session handle: "null" or "open"
  calls,              \* invocations of start / handleAction suspended at their await
  mounted,            \* whether the mount effect has run
  uncaught,           \* whether a handler's promise was rejected (exception escaped)
  turns,              \* accepted handleAction calls so far
  now                 \* Date.now()

vars ==
  <<gameState, input, isLoading, showMemoryOverlay, timers, chatSession, calls,
    mounted, uncaught, turns, now>>

\* ---------------------------------------------------------------- helpers
\* [...new Set(xs)]: the first occurrence of each element, in order.
RECURSIVE Dedup(_)
Dedup(xs) ==
  IF xs = <<>> THEN <<>>
  ELSE LET front == Dedup(SubSeq(xs, 1, Len(xs) - 1))
           last == xs[Len(xs)]
       IN IF \E i \in 1..Len(front) : front[i] = last
          THEN front ELSE Append(front, last)

\* xs.filter(i => i !== x)
RECURSIVE Without(_, _)
Without(xs, x) ==
  IF xs = <<>> THEN <<>>
  ELSE IF Head(xs) = x THEN Without(Tail(xs), x)
  ELSE <<Head(xs)>> \o Without(Tail(xs), x)

\* new Date().toISOString() at clock value t
toISOString(t) == "1970-01-01T00:00:00." \o ToString(t) \o "Z"

\* ------------------------------------------------------------ the reducer
\* Variant: the entry type ignores memoryTriggered.
newHistory_alwaysDescription(response, t) ==
  [id |-> ToString(t), speaker |-> "GM", text |-> TextOf(response.narrative),
   type |-> "description", timestamp |-> t]

\* The entry built for a reply, at clock value t.
newHistory(response, t) ==
  [id |-> ToString(t), speaker |-> "GM", text |-> TextOf(response.narrative),
   type |-> IF TruthyBool(response.updates[1].memoryTriggered)
            THEN "memory" ELSE "description",
   timestamp |-> t]

\* Variant: the location is assigned without testing that the field is set.
newLocation_unguarded(prev, updates) == TextOf(updates.newLocation)

newLocation(prev, updates) ==
  IF TruthyStr(updates.newLocation)
  THEN updates.newLocation[1] ELSE prev.currentLocation

\* Variant: the added item is appended without the Set round trip.
addedInventory_noSet(prev, updates) ==
  IF TruthyStr(updates.itemAdded)
  THEN Append(prev.inventory, updates.itemAdded[1]) ELSE prev.inventory

addedInventory(prev, updates) ==
  IF TruthyStr(updates.itemAdded)
  THEN Dedup(Append(prev.inventory, updates.itemAdded[1])) ELSE prev.inventory

\* itemRemoved filters prev.inventory, not the list itemAdded produced.
newInventory(prev, updates) ==
  IF TruthyStr(updates.itemRemoved)
  THEN Without(prev.inventory, updates.itemRemoved[1])
  ELSE addedInventory(prev, updates)

\* Variant: the clock reading also goes into the clue's name.
newClue_stampedName(updates, t) ==
  [id |-> ToString(t), name |-> updates.clueAdded[1].name \o " #" \o ToString(t),
   description |-> updates.clueAdded[1].description,
   discoveredAt |-> toISOString(t)]

newClue(updates, t) ==
  [id |-> ToString(t), name |-> updates.clueAdded[1].name,
   description |-> updates.clueAdded[1].description,
   discoveredAt |-> toISOString(t)]

\* Variant: the new clue replaces the list instead of extending it.
newClues_replacing(prev, updates, t) ==
  IF TruthyObj(updates.clueAdded)
  THEN <<newClue(updates, t)>> ELSE prev.clues

newClues(prev, updates, t) ==
  IF TruthyObj(updates.clueAdded)
  THEN Append(prev.clues, newClue(updates, t)) ELSE prev.clues

\* Variant: a memory reply also moves the game into the memory phase.
newState_enteringMemoryPhase(prev, response, t) ==
  LET updates == response.updates[1]
  IN [prev EXCEPT
        !.narrativeHistory = Append(prev.narrativeHistory, newHistory(response, t)),
        !.currentLocation = newLocation(prev, updates),
        !.inventory = newInventory(prev, updates),
        !.clues = newClues(prev, updates, t),
        !.phase = IF TruthyBool(updates.memoryTriggered) THEN "memory" ELSE prev.phase]

\* Variant: the reply's entry is put in front of the last entry.
newState_answerFirst(prev, response, t) ==
  LET updates == response.updates[1]
      n == Len(prev.narrativeHistory)
  IN [prev EXCEPT
        !.narrativeHistory =
          IF n = 0
          THEN <<newHistory(response, t)>>
          ELSE SubSeq(prev.narrativeHistory, 1, n - 1)
                 \o <<newHistory(response, t), prev.narrativeHistory[n]>>,
        !.currentLocation = newLocation(prev, updates),
        !.inventory = newInventory(prev, updates),
        !.clues = newClues(prev, updates, t)]

\* Variant: the reply's entry overwrites the last entry instead of following it.
newState_overwritingLast(prev, response, t) ==
  LET updates == response.updates[1]
      kept == SubSeq(prev.narrativeHistory, 1, Len(prev.narrativeHistory) - 1)
  IN [prev EXCEPT
        !.narrativeHistory = Append(kept, newHistory(response, t)),
        !.currentLocation = newLocation(prev, updates),
        !.inventory = newInventory(prev, updates),
        !.clues = newClues(prev, updates, t)]

\* The updater passed to setGameState by handleApiResponse.
newState(prev, response, t) ==
  LET updates == response.updates[1]
  IN [prev EXCEPT
        !.narrativeHistory = Append(prev.narrativeHistory, newHistory(response, t)),
        !.currentLocation = newLocation(prev, updates),
        !.inventory = newInventory(prev, updates),
        !.clues = newClues(prev, updates, t)]

\* response.updates.memoryTriggered on an error result (no `updates`) throws.
handleApiResponseThrows(response) == response.updates = None

\* handleApiResponse for a response it does not throw on.
handleApiResponse(response) ==
  /\ ~handleApiResponseThrows(response)
  /\ gameState' = newState(gameState, response, now)
  /\ IF TruthyBool(response.updates[1].memoryTriggered)
     THEN showMemoryOverlay' = TRUE /\ timers' = timers + 1
     ELSE UNCHANGED <<showMemoryOverlay, timers>>

\* ---------------------------------------------------------------- set-up
InitialGameState ==
  [currentLocation |-> "station", inventory |-> <<>>, clues |-> <<>>,
   narrativeHistory |-> <<>>, phase |-> "start",
   trust |-> [Silas |-> 30, Evelyn |-> 50, Jonas |-> 10],
   puzzleActive |-> None]

Init ==
  /\ gameState = InitialGameState
  /\ input = ""
  /\ isLoading = FALSE
  /\ showMemoryOverlay = FALSE
  /\ timers = 0
  /\ chatSession = "null"
  /\ calls = <<>>
  /\ mounted = FALSE
  /\ uncaught = FALSE
  /\ turns = 0
  /\ now = 0

\* The sequence without its i-th element.
RemoveAt(xs, i) == SubSeq(xs, 1, i - 1) \o SubSeq(xs, i + 1, Len(xs))

\* What a suspended call's await can yield: with no request sent there is
\* nothing to wait for but the immediate result.
OutcomesOf(call) == IF call.session = "open" THEN Outcomes ELSE {Throws}

\* ------------------------------------------------------ the mount effect
\* start() up to `await initializeGame()`: chats.create either returns a
\* session (and sendMessage is called) or throws into the catch block.
\* Variant: the effect does not raise isLoading.
start_notLoading ==
  /\ ~mounted
  /\ mounted' = TRUE
  /\ \E created \in BOOLEAN :
       /\ chatSession' = IF created THEN "open" ELSE chatSession
       /\ calls' = Append(calls, [handler |-> "start", session |-> chatSession',
                                  base |-> Len(gameState.narrativeHistory)])
  /\ UNCHANGED <<gameState, input, isLoading, showMemoryOverlay, timers, uncaught,
                 turns, now>>

start ==
  /\ ~mounted
  /\ mounted' = TRUE
  /\ isLoading' = TRUE
  /\ \E created \in BOOLEAN :
       /\ chatSession' = IF created THEN "open" ELSE chatSession
       /\ calls' = Append(calls, [handler |-> "start", session |-> chatSession',
                                  base |-> Len(gameState.narrativeHistory)])
  /\ UNCHANGED <<gameState, input, showMemoryOverlay, timers, uncaught, turns, now>>

\* Variant: the failure is shown as the narrator's line with the service's text.
SystemEntry_asNarrator(t) ==
  [id |-> ToString(t), speaker |-> "GM",
   text |-> "Connection to the void failed. (Check API Key)",
   type |-> "description", timestamp |-> t]

SystemEntry(t) ==
  [id |-> ToString(t), speaker |-> "System",
   text |-> "Failed to connect to the story engine. Please check your API Key configuration.",
   type |-> "action", timestamp |-> t]

\* start() from the await on.
startResume(i, outcome) ==
  /\ calls[i].handler = "start"
  /\ LET response == initializeGame(calls[i].session = "open", outcome)
     IN IF response.error
        THEN /\ gameState' = [gameState EXCEPT !.narrativeHistory =
                                Append(gameState.narrativeHistory, SystemEntry(now))]
             /\ UNCHANGED <<showMemoryOverlay, timers>>
        ELSE handleApiResponse(response)
  /\ isLoading' = FALSE
  /\ calls' = RemoveAt(calls, i)
  /\ UNCHANGED <<input, chatSession, mounted, uncaught, turns, now>>

\* ------------------------------------------------------------ handleAction
PlayerEntry(actionText, t) ==
  [id |-> ToString(t), speaker |-> "Alex", text |-> actionText,
   type |-> "action", timestamp |-> t]

\* Variant: the isLoading check is missing.
busy_unchecked == FALSE

\* Whether handleAction returns at once.
busy == isLoading

\* handleAction up to `await sendPlayerAction(...)`; sendPlayerAction calls
\* sendMessage only when chatSession is set.
handleAction(actionText) ==
  IF busy
  THEN UNCHANGED vars
  ELSE /\ turns < MaxTurns
       /\ turns' = turns + 1
       /\ gameState' = [gameState EXCEPT !.narrativeHistory =
                          Append(gameState.narrativeHistory, PlayerEntry(actionText, now))]
       /\ isLoading' = TRUE
       /\ calls' = Append(calls, [handler |-> "handleAction", session |-> chatSession,
                                  base |-> Len(gameState.narrativeHistory)])
       /\ UNCHANGED <<input, showMemoryOverlay, timers, chatSession, mounted,
                      uncaught, now>>

\* handleAction from the await on.  When handleApiResponse throws, the lines
\* after it do not run and the promise handleAction returned is rejected.
handleActionResume(i, outcome) ==
  /\ calls[i].handler = "handleAction"
  /\ LET response == sendPlayerAction(calls[i].session, outcome)
     IN IF handleApiResponseThrows(response)
        THEN /\ uncaught' = TRUE
             /\ UNCHANGED <<gameState, input, isLoading, showMemoryOverlay, timers>>
        ELSE /\ handleApiResponse(response)
             /\ isLoading' = FALSE
             /\ input' = ""
             /\ UNCHANGED uncaught
  /\ calls' = RemoveAt(calls, i)
  /\ UNCHANGED <<chatSession, mounted, turns, now>>

\* ------------------------------------------------------------- UI events
\* The quick-action buttons call handleAction with a fixed text each and differ
\* in nothing else; one of the three texts stands for them.
QuickActions == {"Look around carefully"}
InputTexts == {"", " ", "search the desk"}

\* input.trim() over InputTexts
trim(text) == IF text = " " THEN "" ELSE text

\* A call of handleAction by any caller, such as the three quick-action
\* buttons with their fixed texts.
onClick(actionText) ==
  /\ mounted
  /\ handleAction(actionText)

\* The text box; it is disabled while isLoading.
onChange(value) ==
  /\ mounted
  /\ ~isLoading
  /\ input # value
  /\ input' = value
  /\ UNCHANGED <<gameState, isLoading, showMemoryOverlay, timers, chatSession,
                 calls, mounted, uncaught, turns, now>>

\* Enter in the text box.
handleKeyDown ==
  /\ mounted
  /\ ~isLoading
  /\ trim(input) # ""
  /\ handleAction(input)

\* The callback of setTimeout(() => setShowMemoryOverlay(false), 3000).
timerFires ==
  /\ timers > 0
  /\ timers' = timers - 1
  /\ showMemoryOverlay' = FALSE
  /\ UNCHANGED <<gameState, input, isLoading, chatSession, calls, mounted,
                 uncaught, turns, now>>

\* The clock advances.
Tick ==
  /\ now < MaxTime
  /\ now' = now + 1
  /\ UNCHANGED <<gameState, input, isLoading, showMemoryOverlay, timers,
                 chatSession, calls, mounted, uncaught, turns>>

replyArrives ==
  \E i \in 1..Len(calls) : \E outcome \in OutcomesOf(calls[i]) :
    \/ startResume(i, outcome)
    \/ handleActionResume(i, outcome)

Next ==
  \/ start
  \/ replyArrives
  \/ \E actionText \in QuickActions : onClick(actionText)
  \/ \E value \in InputTexts : onChange(value)
  \/ handleKeyDown
  \/ timerFires
  \/ Tick

Spec == Init /\ [][Next]_vars

\* ================================================================ claims
\* Vocabulary of the properties below.
history == gameState.narrativeHistory
IsPrefix(xs, ys) == Len(xs) <= Len(ys) /\ SubSeq(ys, 1, Len(xs)) = xs
Elements(xs) == {xs[i] : i \in 1..Len(xs)}
NoDuplicates(xs) == \A i, j \in 1..Len(xs) : xs[i] = xs[j] => i = j
Last(xs) == xs[Len(xs)]

\* The response the continuation of a suspended call works with.
responseOf(call, outcome) ==
  IF call.handler = "start"
  THEN initializeGame(call.session = "open", outcome)
  ELSE sendPlayerAction(call.session, outcome)

\* The step in which the i-th suspended call resumes with `outcome`.
resumes(i, outcome) == startResume(i, outcome) \/ handleActionResume(i, outcome)

\* Such a step for a response that carries updates (no error result).
applies(i, outcome) == resumes(i, outcome) /\ ~responseOf(calls[i], outcome).error

\* The updates a reply can carry, as processResponse hands them on.
ReplyUpdates ==
  {r.value.updates[1] : r \in {x \in {processResponse(result) : result \in Results} : ~x.threw}}

\* The responses processResponse hands to handleApiResponse.
ReplyResponses ==
  {x.value : x \in {y \in {processResponse(result) : result \in Results} : ~y.threw}}

Outstanding == Cardinality({i \in 1..Len(calls) : calls[i].session = "open"})
TurnPending == \E i \in 1..Len(calls) : calls[i].handler = "handleAction"

FailureMessages ==
  {"Game session lost. Please restart.", "The whispers are too loud... (API Error)"}

\* ---- C1: when sendPlayerAction returns its error result, the turn appends
\* exactly one narrative entry carrying the failure message, right after the
\* player's entry, and changes no other field of gameState.
C1_FailureEntryAppended ==
  [][\A i \in 1..Len(calls) : \A outcome \in OutcomesOf(calls[i]) :
       (handleActionResume(i, outcome) /\ responseOf(calls[i], outcome).error)
       => /\ Len(history') = Len(history) + 1
          /\ IsPrefix(history, history')
          /\ Last(history).speaker = "Alex"
          /\ Last(history').text \in FailureMessages
          /\ gameState' = [gameState EXCEPT !.narrativeHistory = history']]_vars

\* ---- C2: once the reply or the failure of a turn has been handled, the
\* controller is Idle again: with no call suspended, isLoading is false.
C2_ReturnsToIdle == (calls = <<>>) => ~isLoading

\* ---- C3: no failure of the story service makes a handler raise: no promise
\* returned by start or handleAction is ever rejected.
C3_NoHandlerRaises == ~uncaught

C5_LocationInClosedSet == gameState.currentLocation \in LocationId

\* ---- C6: inventory never holds an item name twice, and in every reachable
\* state an update that adds a name already in inventory (and removes nothing)
\* yields the same inventory.
C6_InventoryIsSet ==
  /\ NoDuplicates(gameState.inventory)
  /\ \A updates \in ReplyUpdates :
       (/\ TruthyStr(updates.itemAdded)
        /\ updates.itemAdded[1] \in Elements(gameState.inventory)
        /\ ~TruthyStr(updates.itemRemoved))
       => newInventory(gameState, updates) = gameState.inventory

\* A state with "Key" in inventory from which a reply adding "Key" again is applied.
C6_Witness ==
  /\ "Key" \in Elements(gameState.inventory)
  /\ ENABLED (\E i \in 1..Len(calls) : \E outcome \in OutcomesOf(calls[i]) :
                /\ applies(i, outcome)
                /\ responseOf(calls[i], outcome).updates[1].itemAdded = Some("Key")
                /\ responseOf(calls[i], outcome).updates[1].itemRemoved = None)

\* ---- C7: an update carrying both itemAdded = a and itemRemoved = r yields
\* the previous inventory with a added as a set-union and then every r removed.
C7_AddThenRemove ==
  [][\A i \in 1..Len(calls) : \A outcome \in OutcomesOf(calls[i]) :
       LET updates == responseOf(calls[i], outcome).updates[1]
       IN (/\ applies(i, outcome)
           /\ TruthyStr(updates.itemAdded)
           /\ TruthyStr(updates.itemRemoved))
          => gameState'.inventory =
               Without(Dedup(Append(gameState.inventory, updates.itemAdded[1])),
                       updates.itemRemoved[1])]_vars

\* ---- C8: no two clues have the same id.
C8_ClueIdsUnique ==
  \A i, j \in 1..Len(gameState.clues) :
    gameState.clues[i].id = gameState.clues[j].id => i = j

\* ---- C9: clues only grows by appending: the clues before a step are a
\* prefix of the clues after it.
C9_CluesAppendOnly == [][IsPrefix(gameState.clues, gameState'.clues)]_vars

C9_Witness == Len(gameState.clues) >= 2

\* ---- C10: narrativeHistory is append-only; while a turn awaits its reply the
\* history is what it was at the accepted call plus the player entry; the
\* turn's continuation adds at most one entry, a GM/System one, and exactly one
\* GM entry when it runs to completion (the reply was applied).
C10_TurnGrowsHistory ==
  /\ [][IsPrefix(history, history')]_vars
  /\ [](\A i \in 1..Len(calls) :
          calls[i].handler = "handleAction"
          => /\ Len(history) = calls[i].base + 1
             /\ Last(history).speaker = "Alex")
  /\ [][\A i \in 1..Len(calls) :
          (calls[i].handler = "handleAction" /\ calls' = RemoveAt(calls, i))
          => LET grown == Len(history') - calls[i].base
             IN /\ grown \in {1, 2}
                /\ grown = 2 => Last(history').speaker \in {"GM", "System"}
                /\ uncaught' = uncaught
                   => (grown = 2 /\ Last(history').speaker = "GM" /\ ~isLoading')]_vars

\* A turn has completed with its reply applied: the player entry and then the
\* GM entry end the history and the controller is Idle.
C10_Witness ==
  /\ turns >= 1 /\ calls = <<>> /\ ~isLoading
  /\ Len(history) >= 3
  /\ history[Len(history) - 1].speaker = "Alex"
  /\ Last(history).speaker = "GM"

\* ---- C11: whenever a reply can arrive, applying any update changes
\* currentLocation only if newLocation is present, inventory only if itemAdded
\* or itemRemoved is present, clues only if clueAdded is present, and never
\* phase, trust or puzzleActive; it appends exactly one entry to
\* narrativeHistory, and with every optional field absent that is all it does.
C11_OnlyNamedFieldsChange ==
  calls # <<>> =>
  \A response \in ReplyResponses :
    LET updates == response.updates[1]
        next == newState(gameState, response, now)
    IN /\ next.currentLocation # gameState.currentLocation => updates.newLocation # None
       /\ next.inventory # gameState.inventory
          => (updates.itemAdded # None \/ updates.itemRemoved # None)
       /\ next.clues # gameState.clues => updates.clueAdded # None
       /\ next.phase = gameState.phase
       /\ next.trust = gameState.trust
       /\ next.puzzleActive = gameState.puzzleActive
       /\ Len(next.narrativeHistory) = Len(history) + 1
       /\ IsPrefix(history, next.narrativeHistory)
       /\ updates = NoUpdates
          => [next EXCEPT !.narrativeHistory = history] = gameState

\* A state holding an item from which a reply with no optional field is applied.
C11_Witness ==
  /\ gameState.inventory # <<>>
  /\ ENABLED (\E i \in 1..Len(calls) : \E outcome \in OutcomesOf(calls[i]) :
                /\ applies(i, outcome)
                /\ responseOf(calls[i], outcome).updates[1] = NoUpdates)

\* ---- C12: trust, phase and puzzleActive always have their initial values.
C12_SeedFieldsUntouched ==
  /\ gameState.trust = [Silas |-> 30, Evelyn |-> 50, Jonas |-> 10]
  /\ gameState.phase = "start"
  /\ gameState.puzzleActive = None

\* Initialization and a turn with a memory reply have both completed.
C12_Witness ==
  /\ turns >= 1 /\ calls = <<>> /\ ~isLoading
  /\ Last(history).type = "memory"
  /\ Len(history) >= 3

\* The parts of a received result and its first function call, if any.
partsOf(result) == IF result.parts = None THEN <<>> ELSE result.parts[1]
callOf(result) == FindFunctionCall(partsOf(result))

\* The update a reply without a usable function call stands for: its text, or
\* the placeholder.
Fallback(result) ==
  LET textPart == FindText(partsOf(result))
  IN [narrative |-> IF textPart # None THEN textPart[1].text ELSE Some("..."),
      updates |-> Some(NoUpdates), error |-> FALSE]

\* Whether a function call matches the update schema: the declared name, with
\* arguments that carry the required narrative.
MatchesSchema(fc) ==
  /\ fc.name = "updateGameState"
  /\ fc.args # None
  /\ fc.args[1].narrative # None

\* ---- C13: every received reply is mapped to exactly one update: with a
\* function call, narrative and the five optional fields are its arguments,
\* verbatim; else with a text part, that text and no optional field; else the
\* placeholder "..." and no optional field.
C13_OneUpdatePerReply ==
  [][\A i \in 1..Len(calls) : \A outcome \in OutcomesOf(calls[i]) :
       (resumes(i, outcome) /\ ~outcome.threw)
       => LET result == outcome.value
              got == processResponse(result)
          IN /\ ~got.threw
             /\ IF callOf(result) # None
                THEN LET args == callOf(result)[1].functionCall[1].args
                     IN /\ args # None
                        /\ got.value.narrative = args[1].narrative
                        /\ got.value.updates =
                             Some([f \in DOMAIN NoUpdates |-> args[1][f]])
                ELSE got.value = Fallback(result)]_vars

\* ---- C14: processResponse never throws, and a function call that does not
\* match the update schema (no arguments, no narrative, another name) yields
\* the text-only or placeholder update, not a structured one.
C14_MismatchDegrades ==
  [][\A i \in 1..Len(calls) : \A outcome \in OutcomesOf(calls[i]) :
       (resumes(i, outcome) /\ ~outcome.threw)
       => LET result == outcome.value
              got == processResponse(result)
          IN /\ ~got.threw
             /\ (callOf(result) # None
                 /\ ~MatchesSchema(callOf(result)[1].functionCall[1]))
                => got.value = Fallback(result)]_vars

\* The same response with memoryTriggered absent.
WithoutMemory(response) ==
  [response EXCEPT !.updates = Some([response.updates[1] EXCEPT !.memoryTriggered = None])]

\* ---- C15: a reply with memoryTriggered true appends a GM entry of type
\* 'memory' (any other reply one of type 'description') and changes gameState
\* in nothing else than that type; the step that appends a 'memory' entry sets
\* the overlay flag and starts one timer, a 'description' entry leaves both;
\* when a timer fires the flag is false and gameState, isLoading and the
\* suspended calls are untouched; and with the flag set an idle controller
\* still accepts handleAction.
C15_MemoryOverlay ==
  /\ [](calls # <<>> =>
        \A response \in ReplyResponses :
          LET memory == response.updates[1].memoryTriggered = Some(TRUE)
              entry == newHistory(response, now)
          IN /\ entry.speaker = "GM"
             /\ entry.type = IF memory THEN "memory" ELSE "description"
             /\ memory =>
                  LET next == newState(gameState, response, now)
                      plain == newState(gameState, WithoutMemory(response), now)
                  IN /\ [next EXCEPT !.narrativeHistory = history]
                          = [plain EXCEPT !.narrativeHistory = history]
                     /\ Last(next.narrativeHistory)
                          = [Last(plain.narrativeHistory) EXCEPT !.type = "memory"])
  /\ [][(Len(history') > Len(history) /\ Last(history').speaker = "GM")
        => IF Last(history').type = "memory"
           THEN showMemoryOverlay' /\ timers' = timers + 1
           ELSE UNCHANGED <<showMemoryOverlay, timers>>]_vars
  /\ [][timers' < timers
        => (~showMemoryOverlay' /\ UNCHANGED <<gameState, isLoading, calls>>)]_vars
  /\ []((showMemoryOverlay /\ mounted /\ ~isLoading /\ turns < MaxTurns)
        => ENABLED (\E actionText \in QuickActions :
                      onClick(actionText) /\ turns' = turns + 1))

\* A memory reply was applied, its overlay was shown and the timer has cleared it.
C15_Witness ==
  /\ \E k \in 1..Len(history) : history[k].type = "memory"
  /\ ~showMemoryOverlay
  /\ timers = 0

\* ---- C16: when initializeGame returns its error result, the start effect
\* appends exactly one entry, spoken by 'System' with the API-key message,
\* changes no other field of gameState, raises nothing and ends with isLoading
\* false.
C16_InitFailureReported ==
  [][\A i \in 1..Len(calls) :
       (calls[i].handler = "start" /\ calls' = RemoveAt(calls, i))
       => \A outcome \in OutcomesOf(calls[i]) :
            (startResume(i, outcome) /\ responseOf(calls[i], outcome).error)
            => /\ Len(history') = Len(history) + 1
               /\ IsPrefix(history, history')
               /\ Last(history').speaker = "System"
               /\ Last(history').text =
                    "Failed to connect to the story engine. Please check your API Key configuration."
               /\ gameState' = [gameState EXCEPT !.narrativeHistory = history']
               /\ ~isLoading'
               /\ uncaught' = uncaught]_vars

\* The initialization turn has failed and has been reported.
C16_Witness ==
  /\ mounted /\ calls = <<>> /\ ~isLoading /\ turns = 0
  /\ Len(history) = 1
  /\ history[1].speaker = "System"

\* The initialization calls among the suspended ones.
StartPending == {i \in 1..Len(calls) : calls[i].handler = "start"}

\* ---- C17: the initialization turn is started once, at mount, and never
\* again; until its result has been applied and isLoading is false again, no
\* player entry is in the history, no request of a player turn is pending and
\* no submitted action is accepted.
C17_InitBeforeInput ==
  /\ []((~mounted \/ StartPending # {})
        => /\ turns = 0
           /\ \A k \in 1..Len(history) : history[k].speaker # "Alex"
           /\ Len(calls) = Cardinality(StartPending)
           /\ Cardinality(StartPending) <= 1
           /\ mounted => isLoading)
  /\ [][/\ mounted => mounted'
        /\ Len(calls') > Len(calls) /\ Last(calls').handler = "start"
           => (~mounted /\ calls = <<>> /\ history = <<>>)
        /\ Len(calls') > Len(calls) /\ Last(calls').handler = "handleAction"
           => (mounted /\ StartPending = {} /\ ~isLoading
               /\ Last(history').speaker = "Alex")]_vars

\* The initialization request is pending and the quick-action button can be
\* clicked: the click is handled and changes nothing.
C17_Witness ==
  /\ mounted /\ StartPending # {} /\ isLoading
  /\ ENABLED (\E actionText \in QuickActions : onClick(actionText))

\* The values the clock gives an entry and a clue, blanked.
UnstampedEntry(entry) == [entry EXCEPT !.id = "", !.timestamp = 0]
UnstampedClue(clue) == [clue EXCEPT !.id = "", !.discoveredAt = ""]

\* States a and b, both results of applying an update to prev, differ at most
\* in the clock values of what the update appended.
SameButStamps(a, b, prev) ==
  /\ [a EXCEPT !.narrativeHistory = <<>>, !.clues = <<>>]
       = [b EXCEPT !.narrativeHistory = <<>>, !.clues = <<>>]
  /\ Len(a.narrativeHistory) = Len(b.narrativeHistory)
  /\ \A k \in 1..Len(a.narrativeHistory) :
       IF k <= Len(prev.narrativeHistory)
       THEN a.narrativeHistory[k] = b.narrativeHistory[k]
       ELSE UnstampedEntry(a.narrativeHistory[k]) = UnstampedEntry(b.narrativeHistory[k])
  /\ Len(a.clues) = Len(b.clues)
  /\ \A k \in 1..Len(a.clues) :
       IF k <= Len(prev.clues)
       THEN a.clues[k] = b.clues[k]
       ELSE UnstampedClue(a.clues[k]) = UnstampedClue(b.clues[k])

C19_PlayerEntryThenReply ==
  /\ [][(Len(calls') > Len(calls) /\ Last(calls').handler = "handleAction")
        => /\ Len(history') = Len(history) + 1
           /\ IsPrefix(history, history')
           /\ Last(history').speaker = "Alex"
           /\ Last(history').type = "action"
           /\ Last(history').text \in QuickActions \cup {input}
           /\ Last(calls').base = Len(history)]_vars
  /\ [][\A i \in 1..Len(calls) :
          (calls[i].handler = "handleAction" /\ calls' = RemoveAt(calls, i))
          => /\ Len(history') >= calls[i].base + 1
             /\ history'[calls[i].base + 1] = history[calls[i].base + 1]
             /\ history'[calls[i].base + 1].speaker = "Alex"
             /\ Len(history') > Len(history)
                => /\ Len(history') = calls[i].base + 2
                   /\ history'[calls[i].base + 2].speaker = "GM"]_vars
  /\ [](\A k \in 1..Len(history) :
          /\ (history[k].speaker = "Alex" /\ k < Len(history))
             => history[k + 1].speaker = "GM"
          /\ (history[k].speaker = "GM" /\ k > 1)
             => history[k - 1].speaker = "Alex")

\* The typed action "search the desk" was submitted and its reply merged: its
\* player entry is directly followed by the GM entry that ends the history.
C19_Witness ==
  /\ calls = <<>> /\ ~isLoading
  /\ \E k \in 1..(Len(history) - 1) :
       /\ history[k].speaker = "Alex"
       /\ history[k].type = "action"
       /\ history[k].text = "search the desk"
       /\ k + 1 = Len(history)
       /\ history[k + 1].speaker = "GM"

\* The optional fields the reducer tests for truthiness, and their empty values.
FalsyFields == {"itemAdded", "itemRemoved", "newLocation", "memoryTriggered"}
ExplicitlyEmpty(field, value) ==
  /\ value # None
  /\ IF field = "memoryTriggered" THEN value[1] = FALSE ELSE value[1] = ""

\* The same response with one field of its updates absent.
WithoutField(response, field) ==
  [response EXCEPT !.updates = Some([response.updates[1] EXCEPT ![field] = None])]

\* ---- C20: whenever a reply can arrive, an update whose itemAdded,
\* itemRemoved or newLocation is "" or whose memoryTriggered is false yields
\* the same state as the same update with that field absent.
C20_EmptyLikeAbsent ==
  calls # <<>> =>
  \A response \in ReplyResponses : \A field \in FalsyFields :
    ExplicitlyEmpty(field, response.updates[1][field])
    => newState(gameState, response, now)
         = newState(gameState, WithoutField(response, field), now)

\* A reply with itemAdded = "" can be applied to a state that has an inventory.
C20_Witness ==
  /\ gameState.inventory # <<>>
  /\ ENABLED (\E i \in 1..Len(calls) : \E outcome \in OutcomesOf(calls[i]) :
                /\ applies(i, outcome)
                /\ responseOf(calls[i], outcome).updates[1].itemAdded = Some(""))

\* ---- C21: no two entries of narrativeHistory have the same id, whoever the
\* speaker of each is.
C21_EntryIdsUnique ==
  \A j, k \in 1..Len(history) : history[j].id = history[k].id => j = k

\* ---- C22: the overlay flag stays true until the timer of the latest
\* memoryTriggered reply fires.  The timers have one delay and fire in the
\* order they were started, so the latest one is pending exactly while any is:
\* a timer that fires while a later one is pending leaves the flag true.
C22_OverlayUntilOwnTimer == timers > 0 => showMemoryOverlay

====
